---- MODULE Spec2Model ----
(***************************************************************************)
(* Answer extraction and self-correction pipeline of the insurance        *)
(* comparison assistant (src/data_extractor.py and the handlers of        *)
(* src/ui_tabs/extraction_tab.py that drive it for one product).          *)
(*                                                                         *)
(* Text is modelled as a sequence of tokens: the gateway's response       *)
(* is a sequence of token records, and the shape check, the code-fence    *)
(* substitutions and the JSON decoding work on those tokens.              *)
(***************************************************************************)
EXTENDS Integers, Sequences, FiniteSets, TLC

VARIABLES
    categories,            \* questions_config["categories"]
    questions,             \* questions_config["questions"]
    product_markdown_full, \* what _get_full_markdown_for_product returned to the latest operation
    extract_by_category,   \* argument of extract_answers_for_product
    op,                    \* the operation in progress: "none", "extract", "review"
    pc,                    \* position inside the operation
    catIdx,                \* index of `category` in the loop over categories
    attempt,               \* loop variable of _call_llm_with_retry
    response_str,          \* what _call_llm_with_retry returned to its caller
    all_answers_for_product, \* the list extract_answers_for_product is building
    result,                \* what the last finished operation returned
    saved,                 \* answers of the product's <name>_extracted.json, NoFile when absent
    extraction_status,     \* products_list[...]["extraction_status"]
    temp_corrections,      \* content of <name>_corrections_temp.json, NoFile when absent
    llmCalls,              \* history: gateway invocations of the running operation
    callInvocations,       \* history: gateway invocations of the running retrying call
    callBad,               \* history: how many of them gave no usable response
    waits,                 \* history: backoff sleeps of the running retrying call
    lastOutcome,           \* history: what the gateway gave at the latest invocation
    outcomes,              \* history: per handled category, what the retrying call returned
    invoked,               \* history: the categories the gateway was invoked for
    applyIn,               \* history: the arguments of the latest apply_corrections call
    display,               \* the table the latest review or apply handler returned
    reviewIn,              \* history: the response the latest review had to parse
    applied,               \* what successive apply_corrections calls on applyIn returned
    markdown_content,      \* argument of _truncate_markdown
    truncated,             \* what _truncate_markdown returned
    products,              \* the names of the two products of products_list
    files,                 \* the files under EXTRACTED_DATA_DIR, by path
    lastStep,              \* history: the product of the latest handler and the files before it
    originalAfter,         \* the list given to apply_corrections, as it is after the call
    markdown_document_infos, \* product_config["markdown_document_infos"]
    size_check,            \* what check_document_size returned
    suggestedBy,           \* history: whose review wrote each corrections file, and whose
                           \* suggestions the latest handler applied
    batch                  \* the running handle_extract_all_answers_action, None when none runs

vars == <<categories, questions, product_markdown_full, extract_by_category, op, pc,
          catIdx, attempt, response_str, all_answers_for_product, result, saved,
          extraction_status, temp_corrections, llmCalls, callInvocations, callBad,
          waits, lastOutcome, outcomes, invoked, applyIn, display, reviewIn, applied,
          markdown_content, truncated, products, files, lastStep, originalAfter,
          markdown_document_infos, size_check, suggestedBy, batch>>

----------------------------------------------------------------------------
(* Bounds of the model *)

\* number of category names the configuration draws from
MaxCats == 2
\* number of configured questions at most
MaxQuestions == 2
\* length of a corrections list at most
MaxCorrections == 2
\* length of an answer list given to apply_corrections at most
MaxAnswers == 3

\* how far from 0 and from the limit the lengths of the documents go
MaxSlack == 40
\* documents of a product, and page paths of a document
MaxDocs == 2
MaxPages == 1

(* Program constants *)

MAX_LLM_RETRIES == 3
MAX_MARKDOWN_CONTEXT_CHARS == 280000

----------------------------------------------------------------------------
(* Names *)

\* category names in the order sorted() gives them
CatNames == <<"Dental", "Travel", "Vision">>
QuestionIds == <<"q001", "q002", "q003", "q004">>
QuestionTexts == <<"Is it covered?", "What is the limit?", "Which exclusions?", "Which deductible?">>

CatUniverse == {CatNames[i] : i \in 1..MaxCats}

None == [none |-> TRUE]
NoFile == [nofile |-> TRUE]
\* no document was read yet, no gateway invocation was made yet
NotRead == [notread |-> TRUE]
NoOutcome == [nooutcome |-> TRUE]

----------------------------------------------------------------------------
(* Generic helpers *)

SeqToSet(s) == {s[i] : i \in DOMAIN s}

Slice(s, a, b) == IF a > b THEN <<>> ELSE SubSeq(s, a, b)

SeqsUpTo(S, n) == UNION {[1..k -> S] : k \in 0..n}

RECURSIVE FilterSeq(_, _)
\* the elements of s, in order, that belong to the set keep
FilterSeq(s, keep) ==
    IF s = <<>> THEN <<>>
    ELSE IF Head(s) \in keep THEN <<Head(s)>> \o FilterSeq(Tail(s), keep)
         ELSE FilterSeq(Tail(s), keep)

----------------------------------------------------------------------------
(* JSON values and text tokens *)

StrVal(s) == [ty |-> "str", s |-> s]
NullVal == [ty |-> "null"]
ListVal(items) == [ty |-> "list", items |-> items]
DictVal(d) == [ty |-> "dict", d |-> d]

Tk(t) == [t |-> t]
LBrace == Tk("{")
RBrace == Tk("}")
LBracket == Tk("[")
RBracket == Tk("]")
Space == Tk(" ")
Newline == Tk("nl")
\* the three backquotes that open and close a markdown code block
Fence == Tk("fence")
JsonWord == Tk("json")
Garbage == Tk("not json")
\* the text of one member of a JSON object, "k": v
Pair(k, v) == [t |-> "pair", k |-> k, v |-> v]
\* the text of one element of a JSON array
Item(v) == [t |-> "item", v |-> v]

Whitespace == {Space, Newline}

\* what call_llm gives: a text, None, or an exception
Text(toks) == [text |-> toks]
Raised == [raised |-> TRUE]

IsText(r) == "text" \in DOMAIN r

RECURSIVE LStrip(_)
LStrip(s) == IF s # <<>> /\ Head(s) \in Whitespace THEN LStrip(Tail(s)) ELSE s

RECURSIVE RStrip(_)
RStrip(s) ==
    IF s # <<>> /\ s[Len(s)] \in Whitespace THEN RStrip(SubSeq(s, 1, Len(s) - 1)) ELSE s

\* str.strip()
Strip(s) == RStrip(LStrip(s))

StartsWith(s, tok) == s # <<>> /\ s[1] = tok
EndsWith(s, tok) == s # <<>> /\ s[Len(s)] = tok

IsJsonShaped_LooseBrackets(response) ==
    LET stripped_response == Strip(response)
    IN  (StartsWith(stripped_response, LBrace) \/ StartsWith(stripped_response, LBracket))
        /\ (EndsWith(stripped_response, RBrace) \/ EndsWith(stripped_response, RBracket))

\* the shape test of _call_llm_with_retry on a non-empty response
IsJsonShaped(response) ==
    LET stripped_response == Strip(response)
    IN  \/ StartsWith(stripped_response, LBrace) /\ EndsWith(stripped_response, RBrace)
        \/ StartsWith(stripped_response, LBracket) /\ EndsWith(stripped_response, RBracket)

\* `if response:` on what call_llm gave
Truthy(r) == IsText(r) /\ r.text # <<>>

\* the first position j >= from with s[j], s[j+1] = Newline, Fence; 0 when there is none
RECURSIVE FindClose(_, _)
FindClose(s, from) ==
    IF from + 1 > Len(s) THEN 0
    ELSE IF s[from] = Newline /\ s[from + 1] = Fence THEN from
         ELSE FindClose(s, from + 1)

IsPrefixAt(s, pre) == Len(s) >= Len(pre) /\ SubSeq(s, 1, Len(pre)) = pre

\* re.sub(opener (.*?) newline fence, group 1, s, flags=re.DOTALL): every leftmost
\* shortest match is replaced by its group
RECURSIVE ReSubFence(_, _)
ReSubFence(s, opener) ==
    IF s = <<>> THEN <<>>
    ELSE LET close == IF IsPrefixAt(s, opener) THEN FindClose(s, Len(opener) + 1) ELSE 0
         IN  IF close # 0
             THEN Slice(s, Len(opener) + 1, close - 1)
                    \o ReSubFence(Slice(s, close + 2, Len(s)), opener)
             ELSE <<Head(s)>> \o ReSubFence(Tail(s), opener)

\* the two substitutions applied to response_str before json.loads
CleanResponse(response) ==
    ReSubFence(ReSubFence(response, <<Fence, JsonWord, Newline>>), <<Fence>>)

IsPair(tok) == "k" \in DOMAIN tok
IsItem(tok) == ~IsPair(tok) /\ "v" \in DOMAIN tok

RECURSIVE PairsToDict(_)
\* a Python dict from the members of an object: a repeated key keeps its last value
PairsToDict(pairs) ==
    IF pairs = <<>> THEN <<>>
    ELSE LET d == PairsToDict(SubSeq(pairs, 1, Len(pairs) - 1))
             p == pairs[Len(pairs)]
         IN  [k \in DOMAIN d \cup {p.k} |-> IF k = p.k THEN p.v ELSE d[k]]

RECURSIVE DropWhitespace(_)
DropWhitespace(s) ==
    IF s = <<>> THEN <<>>
    ELSE IF Head(s) \in Whitespace THEN DropWhitespace(Tail(s))
         ELSE <<Head(s)>> \o DropWhitespace(Tail(s))

DecodeError == [ok |-> FALSE]

\* json.loads(text): a dict, a list, or JSONDecodeError
JsonLoads(text) ==
    LET t == Strip(text)
        inner == IF Len(t) >= 2 THEN DropWhitespace(SubSeq(t, 2, Len(t) - 1)) ELSE <<>>
    IN  IF Len(t) >= 2 /\ t[1] = LBrace /\ t[Len(t)] = RBrace
           /\ \A i \in DOMAIN inner : IsPair(inner[i])
        THEN [ok |-> TRUE, value |-> DictVal(PairsToDict(inner))]
        ELSE IF Len(t) >= 2 /\ t[1] = LBracket /\ t[Len(t)] = RBracket
                /\ \A i \in DOMAIN inner : IsItem(inner[i])
             THEN [ok |-> TRUE, value |-> ListVal([i \in DOMAIN inner |-> inner[i].v])]
             ELSE DecodeError

\* str(value) of a decoded JSON value
PyStr(v) == IF v.ty = "str" THEN v.s ELSE IF v.ty = "null" THEN "None" ELSE "<object>"

----------------------------------------------------------------------------
(* The question configuration *)

Question(i, cats) ==
    [id |-> QuestionIds[i], text |-> QuestionTexts[i], applies_to_categories |-> cats]

\* duplicate-free category lists, sorted as add_category_action and
\* suggest_categories_and_questions leave them
CategoryLists ==
    {FilterSeq(SubSeq(CatNames, 1, MaxCats), S) : S \in SUBSET CatUniverse}

\* questions with distinct ids, each naming at least one category
QuestionLists ==
    UNION {{[i \in 1..n |-> Question(i, f[i])] :
                f \in [1..n -> (SUBSET CatUniverse) \ {{}}]} : n \in 0..MaxQuestions}

----------------------------------------------------------------------------
(* What the gateway can answer *)

AnswerValues == {StrVal(""), StrVal("Covered, 500 CHF"), NullVal}

\* the text of the JSON object that maps the ids of `keys` (in the order of ids) to v
ObjectText(ids, keys, v) ==
    <<LBrace>> \o [i \in 1..Len(FilterSeq(ids, keys)) |-> Pair(FilterSeq(ids, keys)[i], v)]
        \o <<RBrace>>

ObjectTexts(ids) ==
    {ObjectText(ids, keys, v) : keys \in SUBSET SeqToSet(ids), v \in AnswerValues}

FullObject(ids) == ObjectText(ids, SeqToSet(ids), StrVal("Covered, 500 CHF"))

\* texts that are not bracket-shaped
UnshapedTexts(ids) ==
    { <<>>, <<Garbage>>, <<Space>>, <<LBrace, Garbage, RBracket>>,
      <<Fence, JsonWord, Newline>> \o FullObject(ids) \o <<Newline, Fence>> }

\* bracket-shaped texts that are not the plain text of an object
OtherShapedTexts(ids) ==
    { <<LBrace, Garbage, RBrace>>,
      <<LBracket, RBracket>>,
      <<LBracket, Item(StrVal("Covered, 500 CHF")), RBracket>>,
      <<Space>> \o FullObject(ids) \o <<Newline>>,
      <<LBrace, Fence, JsonWord, Newline>> \o Slice(FullObject(ids), 2, Len(FullObject(ids)) - 1)
          \o <<Newline, Fence, RBrace>> }

\* call_llm during extraction of the questions with these ids
ExtractionOutcomes(ids) ==
    {Raised, None}
      \cup {Text(t) : t \in UnshapedTexts(ids) \cup OtherShapedTexts(ids) \cup ObjectTexts(ids)}

----------------------------------------------------------------------------
(* extract_answers_for_product *)

Failure == [failure |-> TRUE]
ProductResult(answers) == [answers |-> answers]

IsFailure(r) == "failure" \in DOMAIN r
IsProductResult(r) == "answers" \in DOMAIN r

\* the selection without its filter
QuestionsForCategory_All(category, all_questions) == all_questions

\* [q for q in all_questions if category in q.get("applies_to_categories", [])]
QuestionsForCategory(category, all_questions) ==
    LET keep == {i \in DOMAIN all_questions :
                    category \in all_questions[i].applies_to_categories}
        RECURSIVE Pick(_)
        Pick(i) == IF i > Len(all_questions) THEN <<>>
                   ELSE IF i \in keep THEN <<all_questions[i]>> \o Pick(i + 1)
                        ELSE Pick(i + 1)
    IN  Pick(1)

AnswerRecord(q_dict, answer, category, status) ==
    [question_id |-> q_dict.id, question_text |-> q_dict.text,
     answer |-> answer, category |-> category, status |-> status]

LlmErrorRecords(category, qs) ==
    [i \in DOMAIN qs |->
        AnswerRecord(qs[i], "Error: LLM extraction failed", category, "error_llm")]

\* the parsing branch appending what the failure branch appends
ParsingErrorRecords_AsLlmError(category, qs) == LlmErrorRecords(category, qs)

ParsingErrorRecords(category, qs) ==
    [i \in DOMAIN qs |->
        AnswerRecord(qs[i], "Error: Parsing LLM response failed", category, "error_parsing")]

\* the lookup without its default
AnswerText_NoFallback(answers_json, q_id) ==
    IF q_id \in DOMAIN answers_json THEN PyStr(answers_json[q_id]) ELSE ""

\* answers_json.get(q_id, "Answer not found by LLM.") followed by str()
AnswerText(answers_json, q_id) ==
    IF q_id \in DOMAIN answers_json THEN PyStr(answers_json[q_id])
    ELSE "Answer not found by LLM."

RawRecords(category, qs, answers_json) ==
    [i \in DOMAIN qs |->
        AnswerRecord(qs[i], AnswerText(answers_json, qs[i].id), category, "raw")]

\* the records one category adds, given what the retrying call returned
CategoryRecords(category, qs, response) ==
    IF response = None \/ response.text = <<>>
    THEN LlmErrorRecords(category, qs)
    ELSE LET answers_json == JsonLoads(CleanResponse(response.text))
         IN  IF answers_json.ok /\ answers_json.value.ty = "dict"
             THEN RawRecords(category, qs, answers_json.value.d)
             ELSE ParsingErrorRecords(category, qs)

\* the failure branch assigning the list instead of appending to it
AnswersAfterCategory_ResetOnFailure(answers, category, qs, response) ==
    IF response = None
    THEN CategoryRecords(category, qs, response)
    ELSE answers \o CategoryRecords(category, qs, response)

\* all_answers_for_product after the category was handled
AnswersAfterCategory(answers, category, qs, response) ==
    answers \o CategoryRecords(category, qs, response)

RECURSIVE JoinNames(_)
JoinNames(names) ==
    IF names = <<>> THEN ""
    ELSE IF Len(names) = 1 THEN names[1]
         ELSE names[1] \o ", " \o JoinNames(Tail(names))

\* ", ".join(q_dict.get("applies_to_categories", ["N/A"]))
JoinCategories(cats) == JoinNames(FilterSeq(CatNames, cats))

\* the branch appending what a failed call appends
NotImplementedRecords_AsLlmError(all_questions) ==
    [i \in DOMAIN all_questions |->
        AnswerRecord(all_questions[i], "Error: LLM extraction failed",
                     JoinCategories(all_questions[i].applies_to_categories), "error_llm")]

\* the branch taken when extract_by_category is false
NotImplementedRecords(all_questions) ==
    [i \in DOMAIN all_questions |->
        [question_id |-> all_questions[i].id, question_text |-> all_questions[i].text,
         answer |-> "Error: Batch extraction not fully implemented",
         category |-> JoinCategories(all_questions[i].applies_to_categories),
         status |-> "error_not_implemented"]]

----------------------------------------------------------------------------
(* self_correct_answers and apply_corrections *)

RequiredFields == {"question_id", "original_answer", "suggested_correction", "reason"}

Correction(q_id, suggestion, reason) ==
    DictVal([f \in RequiredFields |->
        CASE f = "question_id" -> q_id
          [] f = "original_answer" -> StrVal("Covered, 500 CHF")
          [] f = "suggested_correction" -> suggestion
          [] OTHER -> reason])

\* two corrections of the first question (one with a null suggestion), one of an
\* id that is not configured, and one whose question_id is a JSON list
WellFormedItems ==
    { Correction(StrVal(QuestionIds[1]), StrVal("Not covered"), StrVal("excluded on page 2")),
      Correction(StrVal(QuestionIds[1]), NullVal, StrVal("not stated in the document")),
      Correction(StrVal(QuestionIds[MaxQuestions + 1]), StrVal("Not covered"),
                 StrVal("excluded on page 2")),
      Correction(ListVal(<<>>), StrVal("Not covered"), StrVal("excluded on page 2")) }

\* items the reviewer's filter has to drop: a dict without "reason", and a bare string
MissingReason == DictVal([f \in RequiredFields \ {"reason"} |-> StrVal("q001")])
BareString == StrVal("no corrections")

FirstCorrection ==
    Correction(StrVal(QuestionIds[1]), StrVal("Not covered"), StrVal("excluded on page 2"))

\* the arrays the gateway can put under "corrections"
CorrectionArrays ==
    SeqsUpTo(WellFormedItems, MaxCorrections)
      \cup { <<MissingReason>>, <<BareString>>, <<MissingReason, FirstCorrection>>,
             <<FirstCorrection, BareString>> }

\* the test of the fields left out
IsValidCorrection_AnyDict(item) == item.ty = "dict"

\* isinstance(item, dict) and all(k in item for k in [...])
IsValidCorrection(item) == item.ty = "dict" /\ RequiredFields \subseteq DOMAIN item.d

RECURSIVE ValidCorrections(_)
ValidCorrections(corrections_list) ==
    IF corrections_list = <<>> THEN <<>>
    ELSE IF IsValidCorrection(Head(corrections_list))
         THEN <<Head(corrections_list)>> \o ValidCorrections(Tail(corrections_list))
         ELSE ValidCorrections(Tail(corrections_list))

TypeError == [raised |-> "TypeError"]
IsRaised(r) == "raised" \in DOMAIN r

\* lines 247-268 of self_correct_answers: a list of corrections, None, or an exception
\* that the except clause does not catch
ParseReview(response) ==
    LET review_data == JsonLoads(CleanResponse(response.text))
    IN  IF ~review_data.ok THEN None
        ELSE IF review_data.value.ty = "dict"
        THEN IF "corrections" \notin DOMAIN review_data.value.d
                \/ review_data.value.d["corrections"].ty # "list"
             THEN None
             ELSE [corrections |-> ValidCorrections(review_data.value.d["corrections"].items)]
        ELSE \* a list: `in` looks for an element equal to "corrections"
             IF \A i \in DOMAIN review_data.value.items :
                    review_data.value.items[i] # StrVal("corrections")
             THEN None
             ELSE TypeError

\* whether a value can be a dict key
Hashable(v) == v.ty \in {"str", "null"}

\* the position of the key in the insertion-ordered dict, 0 when absent
KeyIndex(map, q_id) ==
    IF \E i \in DOMAIN map : map[i].question_id = q_id
    THEN CHOOSE i \in DOMAIN map : map[i].question_id = q_id
    ELSE 0

RECURSIVE AnswersMap(_)
\* {ans['question_id']: ans.copy() for ans in original_answers}: a key keeps the
\* place of its first record and the value of its last
AnswersMap(original_answers) ==
    IF original_answers = <<>> THEN <<>>
    ELSE LET m == AnswersMap(SubSeq(original_answers, 1, Len(original_answers) - 1))
             ans == original_answers[Len(original_answers)]
             at == KeyIndex(m, ans.question_id)
         IN  IF at = 0 THEN Append(m, ans) ELSE [m EXCEPT ![at] = ans]

\* the three assignments of the loop body
Corrected(ans, correction) ==
    [f \in DOMAIN ans \cup {"correction_reason"} |->
        CASE f = "answer" -> PyStr(correction.d["suggested_correction"])
          [] f = "status" -> "corrected"
          [] f = "correction_reason" -> correction.d["reason"]
          [] OTHER -> ans[f]]

\* one turn of `for correction in corrections_list`
ApplyOne(map, correction) ==
    LET q_id == correction.d["question_id"]
        at == IF q_id.ty = "str" THEN KeyIndex(map, q_id.s) ELSE 0
    IN  IF at # 0 THEN [map EXCEPT ![at] = Corrected(map[at], correction)] ELSE map

RECURSIVE ApplyAll(_, _)
ApplyAll(map, corrections_list) ==
    IF corrections_list = <<>> THEN map
    ELSE ApplyAll(ApplyOne(map, Head(corrections_list)), Tail(corrections_list))

\* whether `q_id in updated_answers_map` raises TypeError for one of the corrections
ApplyRaises(corrections_list) ==
    \E i \in DOMAIN corrections_list : ~Hashable(corrections_list[i].d["question_id"])

\* apply_corrections when it returns: list(updated_answers_map.values())
ApplyCorrections(original_answers, corrections_list) ==
    ApplyAll(AnswersMap(original_answers), corrections_list)

\* call_llm during the review
ReviewOutcomes ==
    {Raised, None}
      \cup {Text(t) : t \in
               { <<>>, <<Garbage>>,
                 <<LBrace, Garbage, RBrace>>,
                 <<LBracket, RBracket>>,
                 <<LBracket, Item(StrVal("corrections")), RBracket>>,
                 <<LBrace, RBrace>>,
                 <<LBrace, Pair("corrections", StrVal("no corrections")), RBrace>> }}
      \cup {Text(<<LBrace, Pair("corrections", ListVal(items)), RBrace>>) :
               items \in CorrectionArrays}

----------------------------------------------------------------------------
(* The state machine *)

Markdown == [markdown |-> TRUE]
\* no table was returned
NoDisplay == [nodisplay |-> TRUE]

\* one product before any of its handlers ran
IdleProduct ==
    /\ product_markdown_full = NotRead
    /\ extract_by_category = TRUE
    /\ op = "none"
    /\ pc = "idle"
    /\ catIdx = 0
    /\ attempt = 0
    /\ response_str = None
    /\ all_answers_for_product = <<>>
    /\ result = None
    /\ saved = NoFile
    /\ extraction_status = "Not Extracted"
    /\ temp_corrections = NoFile
    /\ llmCalls = 0
    /\ callInvocations = 0
    /\ callBad = 0
    /\ waits = 0
    /\ lastOutcome = NoOutcome
    /\ outcomes = <<>>
    /\ invoked = {}
    /\ display = NoDisplay
    /\ reviewIn = None

\* _truncate_markdown is not under study
NoTruncation == markdown_content = NotRead /\ truncated = NotRead

\* no second product is under study
NoProducts ==
    /\ products = <<>> /\ files = <<>> /\ lastStep = None
    /\ suggestedBy = <<>> /\ batch = None

\* neither the caller's list nor the product's documents are under study
NoOtherCall ==
    /\ originalAfter = NotRead
    /\ markdown_document_infos = NotRead
    /\ size_check = NotRead

Init ==
    /\ categories \in CategoryLists
    /\ questions \in QuestionLists
    /\ IdleProduct
    /\ applyIn = None
    /\ applied = <<>>
    /\ NoTruncation
    /\ NoProducts
    /\ NoOtherCall

config == <<categories, questions>>
\* what the handlers of one product with its text at hand leave alone
sideVars ==
    <<applied, markdown_content, truncated, products, files, lastStep, originalAfter,
      markdown_document_infos, size_check, suggestedBy, batch>>
callVars == <<attempt, response_str, callInvocations, callBad, waits, lastOutcome>>

\* the frame of _call_llm_with_retry is gone
CallReset ==
    /\ attempt' = 0
    /\ response_str' = None
    /\ callInvocations' = 0
    /\ callBad' = 0
    /\ waits' = 0
    /\ lastOutcome' = NoOutcome

\* whether the call is the one handle_extract_all_answers_action makes: it returns
\* before the call when no question is configured, and it asks by category
ViaHandler(all_questions, by_category) == all_questions # <<>> /\ by_category

\* the return of extract_answers_for_product and, for the handler's call, lines 75-81
\* of handle_extract_all_answers_action: what the handler does with the result
ExtractFinish(res, via_handler) ==
    /\ result' = res
    /\ op' = "none"
    /\ pc' = "idle"
    /\ catIdx' = 0
    /\ all_answers_for_product' = <<>>
    /\ llmCalls' = 0
    /\ outcomes' = <<>>
    /\ invoked' = {}
    /\ IF ~via_handler
       THEN UNCHANGED <<saved, extraction_status>>
       ELSE IF IsProductResult(res) /\ res.answers # <<>>
       THEN saved' = res /\ extraction_status' = "Extracted"
       ELSE saved' = saved /\ extraction_status' = "Extraction Failed"

\* the test left out
MarkdownMissing_Never(md) == FALSE

\* `if not product_markdown_full`
MarkdownMissing(md) == md = None

\* `if not categories or not all_questions`
NothingConfigured(cats, all_questions) == cats = <<>> \/ all_questions = <<>>

\* returning None as for a missing document
EmptyConfigResult_Failure == Failure

\* what is returned then: {"product_name": product_name, "answers": []}
EmptyConfigResult == ProductResult(<<>>)

\* the test left out
SkipCategory_Never(questions_for_category) == FALSE

\* `if not questions_for_category`: the category is skipped
SkipCategory(questions_for_category) == questions_for_category = <<>>

\* lines 117-139 of extract_answers_for_product, given the text that
\* _get_full_markdown_for_product returned
ExtractBegin(md, by_category) ==
    /\ product_markdown_full' = md
    /\ extract_by_category' = by_category
    /\ IF MarkdownMissing(md)
       THEN ExtractFinish(Failure, ViaHandler(questions, by_category))
       ELSE IF NothingConfigured(categories, questions)
       THEN ExtractFinish(EmptyConfigResult, ViaHandler(questions, by_category))
       ELSE IF by_category
       THEN /\ op' = "extract" /\ pc' = "cat_loop"
            /\ catIdx' = 1
            /\ all_answers_for_product' = <<>>
            /\ llmCalls' = 0
            /\ outcomes' = <<>>
            /\ invoked' = {}
            /\ result' = None
            /\ UNCHANGED <<saved, extraction_status>>
       ELSE ExtractFinish(ProductResult(NotImplementedRecords(questions)),
                          ViaHandler(questions, by_category))

\* extract_answers_for_product up to the loop over the categories
ExtractStart ==
    /\ pc = "idle"
    /\ extraction_status \notin {"Extracted", "Corrected"}
    /\ \E md \in {None, Markdown}, by_category \in BOOLEAN : ExtractBegin(md, by_category)
    /\ CallReset
    /\ display' = NoDisplay
    /\ UNCHANGED <<config, sideVars, temp_corrections, applyIn, reviewIn>>

\* one turn of `for category in categories` up to the retrying call, or the return
ExtractCategory ==
    /\ op = "extract" /\ pc = "cat_loop"
    /\ IF catIdx > Len(categories)
       THEN ExtractFinish(ProductResult(all_answers_for_product),
                          ViaHandler(questions, extract_by_category))
       ELSE /\ IF SkipCategory(QuestionsForCategory(categories[catIdx], questions))
               THEN catIdx' = catIdx + 1 /\ pc' = "cat_loop"
               ELSE catIdx' = catIdx /\ pc' = "llm"
            /\ UNCHANGED <<op, result, saved, extraction_status, all_answers_for_product,
                           llmCalls, outcomes, invoked>>
    /\ UNCHANGED <<config, sideVars, product_markdown_full, extract_by_category, callVars,
                   temp_corrections, applyIn, display, reviewIn>>

\* the ids of the questions the running call asks about
AskedIds ==
    IF op = "extract"
    THEN LET qs == QuestionsForCategory(categories[catIdx], questions)
         IN  [i \in DOMAIN qs |-> qs[i].id]
    ELSE <<>>

GatewayOutcomes == IF op = "extract" THEN ExtractionOutcomes(AskedIds) ELSE ReviewOutcomes

\* whether _call_llm_with_retry returns this response at once
Accepts(r) == r # Raised /\ Truthy(r) /\ IsJsonShaped(r.text)

\* a sleep after every failed attempt
SleepsAfter_Always(n, retries) == TRUE

\* `if attempt < retries - 1`: whether a sleep follows a failed attempt
SleepsAfter(n, retries) == n < retries - 1

\* a loop of retries + 1 turns
HasNextAttempt_OneMore(n, retries) == n < retries

\* whether `for attempt in range(retries)` has another turn after turn n
HasNextAttempt(n, retries) == n + 1 < retries

\* one turn of `for attempt in range(retries)`: the call and the test of its response
LlmAttempt ==
    /\ pc = "llm"
    /\ \E r \in GatewayOutcomes :
        /\ lastOutcome' = r
        /\ llmCalls' = llmCalls + 1
        /\ callInvocations' = callInvocations + 1
        /\ invoked' = IF op = "extract" THEN invoked \cup {categories[catIdx]} ELSE invoked
        /\ IF Accepts(r)
           THEN /\ response_str' = r
                /\ pc' = "llm_ret"
                /\ UNCHANGED <<callBad, attempt>>
           ELSE /\ callBad' = callBad + 1
                /\ response_str' = None
                /\ IF SleepsAfter(attempt, MAX_LLM_RETRIES)
                   THEN pc' = "backoff" /\ UNCHANGED attempt
                   ELSE /\ attempt' = attempt + 1
                        /\ pc' = IF HasNextAttempt(attempt, MAX_LLM_RETRIES)
                                 THEN "llm" ELSE "llm_ret"
    /\ UNCHANGED <<config, sideVars, product_markdown_full, extract_by_category, op, catIdx,
                   all_answers_for_product, result, saved, extraction_status,
                   temp_corrections, waits, outcomes, applyIn, display, reviewIn>>

\* time.sleep(LLM_RETRY_DELAY_SECONDS) and the next turn of the loop
LlmBackoff ==
    /\ pc = "backoff"
    /\ waits' = waits + 1
    /\ attempt' = attempt + 1
    /\ pc' = IF HasNextAttempt(attempt, MAX_LLM_RETRIES) THEN "llm" ELSE "llm_ret"
    /\ lastOutcome' = NoOutcome
    /\ UNCHANGED <<config, sideVars, product_markdown_full, extract_by_category, op, catIdx,
                   response_str, all_answers_for_product, result, saved,
                   extraction_status, temp_corrections, llmCalls, callInvocations,
                   callBad, outcomes, invoked, applyIn, display, reviewIn>>

\* lines 165-196: the records of the category, from what the retrying call returned
ExtractHandleResponse ==
    /\ op = "extract" /\ pc = "llm_ret"
    /\ LET category == categories[catIdx]
           questions_for_category == QuestionsForCategory(category, questions)
       IN  /\ all_answers_for_product' =
                AnswersAfterCategory(all_answers_for_product, category,
                                     questions_for_category, response_str)
           /\ outcomes' = Append(outcomes, [category |-> category, response |-> response_str,
                                             invocations |-> callInvocations,
                                             bad |-> callBad])
    /\ catIdx' = catIdx + 1
    /\ pc' = "cat_loop"
    /\ CallReset
    /\ UNCHANGED <<config, sideVars, product_markdown_full, extract_by_category, op, result, saved,
                   extraction_status, temp_corrections, llmCalls, invoked, applyIn,
                   display, reviewIn>>

\* get_display_data_for_product_df: one row per stored answer
DisplayRows(answers) ==
    [k \in DOMAIN answers |->
        [question_id |-> answers[k].question_id,
         question_text |-> answers[k].question_text,
         category |-> answers[k].category,
         answer |-> answers[k].answer,
         status |-> answers[k].status]]

\* the flag put on a corrected row as well
FlagRows_AlsoCorrected(current_df, corrections_list) ==
    [k \in DOMAIN current_df |->
        IF \E i \in DOMAIN corrections_list :
              corrections_list[i].d["question_id"] = StrVal(current_df[k].question_id)
        THEN [current_df[k] EXCEPT !.status = "review_suggested"]
        ELSE current_df[k]]

\* lines 150-155 of handle_self_correction_action: the Status column of the table
FlagRows(current_df, corrections_list) ==
    LET correction_q_ids ==
            {corrections_list[i].d["question_id"] : i \in DOMAIN corrections_list}
    IN  [k \in DOMAIN current_df |->
            IF StrVal(current_df[k].question_id) \in correction_q_ids
               /\ current_df[k].status # "corrected"
            THEN [current_df[k] EXCEPT !.status = "review_suggested"]
            ELSE current_df[k]]

\* whether building the set correction_q_ids raises TypeError
FlagRaises(corrections_list) ==
    \E i \in DOMAIN corrections_list : ~Hashable(corrections_list[i].d["question_id"])

\* the table handle_self_correction_action returns, NoDisplay when it raises
ReviewDisplay(answers, corrections_list) ==
    IF "corrections" \notin DOMAIN corrections_list
    THEN IF corrections_list = None THEN DisplayRows(answers) ELSE NoDisplay
    ELSE IF corrections_list.corrections = <<>> THEN DisplayRows(answers)
    ELSE IF FlagRaises(corrections_list.corrections) THEN NoDisplay
    ELSE FlagRows(DisplayRows(answers), corrections_list.corrections)

\* handle_self_correction_action up to the retrying call of self_correct_answers
ReviewStart ==
    /\ pc = "idle"
    /\ saved # NoFile
    /\ \E md \in {None, Markdown} :
        /\ product_markdown_full' = md
        /\ IF MarkdownMissing(md)
           THEN /\ result' = Failure
                /\ display' = DisplayRows(saved.answers)
                /\ UNCHANGED <<op, pc>>
           ELSE /\ op' = "review" /\ pc' = "llm"
                /\ result' = None
                /\ display' = NoDisplay
    /\ CallReset
    /\ llmCalls' = 0
    /\ applyIn' = None
    /\ reviewIn' = None
    /\ UNCHANGED <<config, sideVars, extract_by_category, catIdx, all_answers_for_product, saved,
                   extraction_status, temp_corrections, outcomes, invoked>>

\* what self_correct_answers returns for what the retrying call returned
ReviewResult(response) ==
    IF response = None \/ response.text = <<>> THEN None ELSE ParseReview(response)

\* the file handle_self_correction_action leaves for a review result
TempAfterReview(temp, corrections_list) ==
    IF "corrections" \in DOMAIN corrections_list /\ corrections_list.corrections # <<>>
    THEN corrections_list
    ELSE temp

\* lines 243-268 of self_correct_answers and lines 133-148 of its handler
ReviewHandleResponse ==
    /\ op = "review" /\ pc = "llm_ret"
    /\ LET corrections_list == ReviewResult(response_str)
       IN  /\ result' = IF corrections_list = None THEN Failure ELSE corrections_list
           /\ temp_corrections' = TempAfterReview(temp_corrections, corrections_list)
           /\ display' = ReviewDisplay(saved.answers, corrections_list)
    /\ reviewIn' = response_str
    /\ op' = "none"
    /\ pc' = "idle"
    /\ CallReset
    /\ llmCalls' = 0
    /\ UNCHANGED <<config, sideVars, product_markdown_full, extract_by_category, catIdx,
                   all_answers_for_product, saved, extraction_status, outcomes, invoked,
                   applyIn>>

\* handle_apply_corrections_action_button when both files exist
ApplyCorrectionsAction ==
    /\ pc = "idle"
    /\ saved # NoFile
    /\ temp_corrections # NoFile
    /\ LET corrected_answers ==
               ApplyCorrections(saved.answers, temp_corrections.corrections)
       IN  /\ applyIn' = [original_answers |-> saved.answers,
                          corrections_list |-> temp_corrections.corrections]
           /\ IF ApplyRaises(temp_corrections.corrections)
              THEN /\ result' = TypeError
                   /\ display' = NoDisplay
                   /\ UNCHANGED <<saved, temp_corrections>>
              ELSE /\ result' = ProductResult(corrected_answers)
                   /\ display' = DisplayRows(corrected_answers)
                   /\ saved' = ProductResult(corrected_answers)
                   /\ temp_corrections' = NoFile
    /\ product_markdown_full' = NotRead
    /\ reviewIn' = None
    /\ UNCHANGED <<config, sideVars, extract_by_category, op, pc, catIdx, callVars,
                   all_answers_for_product, extraction_status, llmCalls, outcomes, invoked>>

Next ==
    \/ ExtractStart
    \/ ExtractCategory
    \/ LlmAttempt
    \/ LlmBackoff
    \/ ExtractHandleResponse

Spec == Init /\ [][Next]_vars

\* the step ExtractHandleResponse, told by the position it leaves and reaches
HandleResponseReturns == op = "extract" /\ pc = "llm_ret" /\ pc' = "cat_loop"

\* the thread running extract_answers_for_product takes its next step: the loop goes
\* on, a gateway call returns or raises, a sleep ends, the response is handled
SpecLive ==
    /\ Spec
    /\ WF_vars(ExtractCategory)
    /\ WF_vars(LlmAttempt)
    /\ WF_vars(LlmBackoff)
    /\ WF_pc(HandleResponseReturns)

\* every configured category, the first question applying to all of them and the
\* others to the first category
PipelineQuestions ==
    [i \in 1..MaxQuestions |->
        Question(i, IF i = 1 THEN CatUniverse ELSE {CatNames[1]})]

InitPipeline ==
    /\ Init
    /\ categories = SubSeq(CatNames, 1, MaxCats)
    /\ questions = PipelineQuestions

NextPipeline ==
    \/ Next
    \/ ReviewStart
    \/ ReviewHandleResponse
    \/ ApplyCorrectionsAction

SpecPipeline == InitPipeline /\ [][NextPipeline]_vars

----------------------------------------------------------------------------
(* apply_corrections on its own *)

\* records extract_answers_for_product produces for the pipeline's questions
ApplyRecords ==
    { AnswerRecord(PipelineQuestions[1], "Covered, 500 CHF", CatNames[1], "raw"),
      AnswerRecord(PipelineQuestions[1], "", CatNames[2], "raw"),
      AnswerRecord(PipelineQuestions[2], "", CatNames[1], "raw"),
      AnswerRecord(PipelineQuestions[2], "Error: LLM extraction failed", CatNames[2],
                   "error_llm") }

\* answer lists without a repeated record
OriginalLists ==
    {l \in SeqsUpTo(ApplyRecords, MaxAnswers) : \A i, j \in DOMAIN l : l[i] = l[j] => i = j}

\* the lists self_correct_answers can return
CorrectionLists == SeqsUpTo(WellFormedItems, MaxCorrections)

\* apply_corrections: the list it returns, or the exception it raises
ApplyResult(original_answers, corrections_list) ==
    IF ApplyRaises(corrections_list) THEN TypeError
    ELSE ProductResult(ApplyCorrections(original_answers, corrections_list))

\* The objects of a call: `heap` holds the dicts by reference, the caller's list is
\* the references 1..Len(original_answers), and a dict entry is [question_id, ref].

\* the entry made to hold the record itself
CopyRecord_Alias(heap, ref) == [heap |-> heap, ref |-> ref]

\* ans.copy(): a new dict with the keys and values of the record
CopyRecord(heap, ref) == [heap |-> Append(heap, heap[ref]), ref |-> Len(heap) + 1]

RECURSIVE BuildAnswersMap(_, _, _)
\* line 280: {ans['question_id']: ans.copy() for ans in original_answers}
BuildAnswersMap(heap, refs, map) ==
    IF refs = <<>> THEN [heap |-> heap, map |-> map]
    ELSE LET copy == CopyRecord(heap, Head(refs))
             key == heap[Head(refs)].question_id
             at == KeyIndex(map, key)
         IN  BuildAnswersMap(copy.heap, Tail(refs),
                             IF at = 0
                             THEN Append(map, [question_id |-> key, ref |-> copy.ref])
                             ELSE [map EXCEPT ![at].ref = copy.ref])

RECURSIVE RunCorrections(_, _, _)
\* lines 282-295: the loop assigns into the dicts the map refers to, up to the
\* correction at which `q_id in updated_answers_map` raises
RunCorrections(heap, map, corrections_list) ==
    IF corrections_list = <<>> THEN [heap |-> heap, map |-> map, raised |-> FALSE]
    ELSE LET correction == Head(corrections_list)
             q_id == correction.d["question_id"]
         IN  IF ~Hashable(q_id) THEN [heap |-> heap, map |-> map, raised |-> TRUE]
             ELSE LET at == IF q_id.ty = "str" THEN KeyIndex(map, q_id.s) ELSE 0
                  IN  RunCorrections(
                          IF at = 0 THEN heap
                          ELSE [heap EXCEPT ![map[at].ref] =
                                    Corrected(heap[map[at].ref], correction)],
                          map, Tail(corrections_list))

\* the objects when apply_corrections returns or raises
ApplyOnHeap(original_answers, corrections_list) ==
    LET built == BuildAnswersMap(original_answers,
                                 [i \in DOMAIN original_answers |-> i], <<>>)
    IN  RunCorrections(built.heap, built.map, corrections_list)

\* the caller's list, read after the call
OriginalAfterCall(original_answers, corrections_list) ==
    LET done == ApplyOnHeap(original_answers, corrections_list)
    IN  [i \in DOMAIN original_answers |-> done.heap[i]]

\* line 297: list(updated_answers_map.values())
ReturnedAnswers(original_answers, corrections_list) ==
    LET done == ApplyOnHeap(original_answers, corrections_list)
    IN  [k \in DOMAIN done.map |-> done.heap[done.map[k].ref]]

InitApply ==
    /\ categories = <<>>
    /\ questions = <<>>
    /\ IdleProduct
    /\ applyIn \in [original_answers : OriginalLists, corrections_list : CorrectionLists]
    /\ applied = <<>>
    /\ NoTruncation
    /\ NoProducts
    /\ NoOtherCall

\* apply_corrections called on the original answers, then on what it returned
ApplyCorrectionsCall ==
    /\ Len(applied) < 2
    /\ IF applied = <<>> THEN TRUE ELSE IsProductResult(applied[1])
    /\ applied' = Append(applied,
                         ApplyResult(IF applied = <<>> THEN applyIn.original_answers
                                     ELSE applied[1].answers,
                                     applyIn.corrections_list))
    /\ originalAfter' = OriginalAfterCall(IF applied = <<>> THEN applyIn.original_answers
                                          ELSE applied[1].answers,
                                          applyIn.corrections_list)
    /\ UNCHANGED <<config, product_markdown_full, extract_by_category, op, pc, catIdx,
                   callVars, all_answers_for_product, result, saved, extraction_status,
                   temp_corrections, llmCalls, outcomes, invoked, applyIn, display,
                   reviewIn, markdown_content, truncated, products, files, lastStep,
                   markdown_document_infos, size_check, suggestedBy, batch>>

NextApply == ApplyCorrectionsCall

SpecApply == InitApply /\ [][NextApply]_vars

----------------------------------------------------------------------------
(* _truncate_markdown on its own *)

\* a text: the first `body` characters of the product's document, then `tail`
Document(n) == [body |-> n, tail |-> <<>>]

\* "\n...[DOCUMENT TRUNCATED]", character by character
TruncationMarker ==
    <<"\n", ".", ".", ".", "[", "D", "O", "C", "U", "M", "E", "N", "T", " ",
      "T", "R", "U", "N", "C", "A", "T", "E", "D", "]">>

\* len(text)
TextLen(text) == text.body + Len(text.tail)

\* text[:n] of a document
Prefix(text, n) == [body |-> IF text.body < n THEN text.body ELSE n, tail |-> <<>>]

\* text + suffix
Concat(text, suffix) == [text EXCEPT !.tail = text.tail \o suffix]

\* the documents given to _truncate_markdown: short ones and ones about the limit
Documents ==
    {Document(n) : n \in (1..MaxSlack)
                        \cup ((MAX_MARKDOWN_CONTEXT_CHARS - MaxSlack)
                               ..(MAX_MARKDOWN_CONTEXT_CHARS + MaxSlack))}

\* the comparison taking the limit itself as too long
TruncateMarkdown_FromLimit(text) ==
    IF TextLen(text) >= MAX_MARKDOWN_CONTEXT_CHARS
    THEN Concat(Prefix(text, MAX_MARKDOWN_CONTEXT_CHARS), TruncationMarker)
    ELSE text

\* _truncate_markdown
TruncateMarkdown(text) ==
    IF TextLen(text) > MAX_MARKDOWN_CONTEXT_CHARS
    THEN Concat(Prefix(text, MAX_MARKDOWN_CONTEXT_CHARS), TruncationMarker)
    ELSE text

InitTruncate ==
    /\ categories = <<>>
    /\ questions = <<>>
    /\ IdleProduct
    /\ applyIn = None
    /\ applied = <<>>
    /\ markdown_content \in Documents
    /\ truncated = NotRead
    /\ NoProducts
    /\ NoOtherCall

\* one call of _truncate_markdown
TruncateCall ==
    /\ truncated = NotRead
    /\ truncated' = TruncateMarkdown(markdown_content)
    /\ UNCHANGED <<config, product_markdown_full, extract_by_category, op, pc, catIdx,
                   callVars, all_answers_for_product, result, saved, extraction_status,
                   temp_corrections, llmCalls, outcomes, invoked, applyIn, display,
                   reviewIn, applied, markdown_content, products, files, lastStep,
                   originalAfter, markdown_document_infos, size_check, suggestedBy, batch>>

NextTruncate == TruncateCall

SpecTruncate == InitTruncate /\ [][NextTruncate]_vars

----------------------------------------------------------------------------
(* The documents of a product and its aggregated text *)

\* a text as runs of equal characters: n times the character c
Run(c, n) == [c |-> c, n |-> n]
Chars(s) == [i \in DOMAIN s |-> Run(s[i], 1)]

\* len(text)
RECURSIVE RunsLen(_)
RunsLen(text) == IF text = <<>> THEN 0 ELSE Head(text).n + RunsLen(Tail(text))

\* `not text.strip()`
IsBlank(text) == \A i \in DOMAIN text : text[i].n = 0 \/ text[i].c \in {" ", "\n"}

\* a page path that is empty, and a page path with what load_markdown_page reads there
EmptyPath == [empty_path |-> TRUE]
PageFile(page_content) == [page_content |-> page_content]

PageEntries ==
    {EmptyPath, PageFile(None),
     PageFile(Text(<<Run("\n", 1)>>)),
     PageFile(Text(<<Run("x", 3)>>)),
     PageFile(Text(<<Run("x", MAX_MARKDOWN_CONTEXT_CHARS)>>))}

PageLists == UNION {[1..n -> PageEntries] : n \in 0..MaxPages}

\* the entries of markdown_document_infos
DocInfos ==
    [doc_name : {None, [name |-> <<"A">>]},
     markdown_pages_paths_absolute : PageLists,
     markdown_pages_paths : {<<>>, <<PageFile(Text(<<Run("x", 3)>>))>>}]

\* load_product_config gave nothing, a config without the key, or one with the list
NoInfos == [noinfos |-> TRUE]
Infos(l) == [infos |-> l]
HasInfos(c) == "infos" \in DOMAIN c

ProductConfigs ==
    {None, NoInfos} \cup {Infos(l) : l \in UNION {[1..n -> DocInfos] : n \in 0..MaxDocs}}

\* doc_info.get('doc_name', 'unnamed_document')
DocName(doc_info) ==
    IF doc_info.doc_name = None
    THEN <<"u", "n", "n", "a", "m", "e", "d", "_", "d", "o", "c", "u", "m", "e", "n", "t">>
    ELSE doc_info.doc_name.name

\* f"\n\n--- Content from Document: {doc_name} ---\n"
DocHeader(doc_info) ==
    Chars(<<"\n", "\n", "-", "-", "-", " ", "C", "o", "n", "t", "e", "n", "t", " ",
            "f", "r", "o", "m", " ", "D", "o", "c", "u", "m", "e", "n", "t", ":", " ">>)
        \o Chars(DocName(doc_info)) \o Chars(<<" ", "-", "-", "-", "\n">>)

\* doc_info.get('markdown_pages_paths_absolute', []) or
\* doc_info.get('markdown_pages_paths', [])
PagePaths(doc_info) ==
    IF doc_info.markdown_pages_paths_absolute # <<>>
    THEN doc_info.markdown_pages_paths_absolute
    ELSE doc_info.markdown_pages_paths

\* lines 76-87: the parts the pages of one document add
RECURSIVE PageParts(_)
PageParts(page_paths) ==
    IF page_paths = <<>> THEN <<>>
    ELSE LET page_path == Head(page_paths)
         IN  IF page_path = EmptyPath \/ page_path.page_content = None
             THEN PageParts(Tail(page_paths))
             ELSE page_path.page_content.text \o <<Run("\n", 1)>>
                      \o PageParts(Tail(page_paths))

\* lines 67-87: the parts one document adds
DocParts(doc_info) == DocHeader(doc_info) \o PageParts(PagePaths(doc_info))

RECURSIVE JoinParts(_)
JoinParts(doc_infos) ==
    IF doc_infos = <<>> THEN <<>>
    ELSE DocParts(Head(doc_infos)) \o JoinParts(Tail(doc_infos))

\* _get_full_markdown_for_product, given what load_product_config returned
GetFullMarkdown(product_config) ==
    IF ~HasInfos(product_config) THEN None
    ELSE LET full_md_content == JoinParts(product_config.infos)
         IN  IF IsBlank(full_md_content) THEN None ELSE Text(full_md_content)

SizeCheck(exceeds, content_len) == [exceeds |-> exceeds, content_len |-> content_len]

\* check_document_size, given what load_product_config returned
check_document_size(product_config) ==
    LET product_markdown == GetFullMarkdown(product_config)
    IN  IF product_markdown = None THEN SizeCheck(FALSE, 0)
        ELSE SizeCheck(RunsLen(product_markdown.text) > MAX_MARKDOWN_CONTEXT_CHARS,
                       RunsLen(product_markdown.text))

InitMarkdown ==
    /\ categories = SubSeq(CatNames, 1, 1)
    /\ questions = <<Question(1, {CatNames[1]})>>
    /\ IdleProduct
    /\ applyIn = None
    /\ applied = <<>>
    /\ NoTruncation
    /\ NoProducts
    /\ originalAfter = NotRead
    /\ markdown_document_infos \in ProductConfigs
    /\ size_check = NotRead

\* one call of check_document_size
CheckDocumentSizeCall ==
    /\ size_check = NotRead
    /\ size_check' = check_document_size(markdown_document_infos)
    /\ UNCHANGED <<config, product_markdown_full, extract_by_category, op, pc, catIdx,
                   callVars, all_answers_for_product, result, saved, extraction_status,
                   temp_corrections, llmCalls, outcomes, invoked, applyIn, display,
                   reviewIn, applied, markdown_content, truncated, products, files,
                   lastStep, originalAfter, markdown_document_infos, suggestedBy, batch>>

\* `not product_disk_config or not product_disk_config.get('markdown_document_infos')`
HandlerSkips(product_config) ==
    ~HasInfos(product_config) \/ product_config.infos = <<>>

\* extract_answers_for_product on the product's documents up to the loop over the
\* categories: called by the handler (by category, unless the handler skips the
\* product) or on its own
ExtractOnDocuments ==
    /\ pc = "idle"
    /\ extraction_status \notin {"Extracted", "Corrected"}
    /\ \E by_category \in BOOLEAN :
          IF by_category /\ HandlerSkips(markdown_document_infos)
          THEN /\ extraction_status' = "Markdown Missing"
               /\ UNCHANGED <<product_markdown_full, extract_by_category, op, pc, catIdx,
                              all_answers_for_product, result, saved, llmCalls, outcomes,
                              invoked>>
          ELSE ExtractBegin(GetFullMarkdown(markdown_document_infos), by_category)
    /\ CallReset
    /\ display' = NoDisplay
    /\ UNCHANGED <<config, sideVars, temp_corrections, applyIn, reviewIn>>

NextMarkdown ==
    \/ CheckDocumentSizeCall
    \/ ExtractOnDocuments
    \/ ExtractCategory
    \/ LlmAttempt
    \/ LlmBackoff
    \/ ExtractHandleResponse

SpecMarkdown == InitMarkdown /\ [][NextMarkdown]_vars

----------------------------------------------------------------------------
(* Two products and the files of their handlers *)

\* product names as the ingestion tab accepts them, character by character
ProductNameList ==
    << <<"P", "l", "a", "n", " ", "A">>,
       <<"P", "l", "a", "n", "-", "A", "!">>,
       <<"p", "l", "a", "n", " ", "a">>,
       <<"P", "l", "a", "n", "/", "B", " ">> >>

ProductNames == {ProductNameList[i] : i \in DOMAIN ProductNameList}

\* the two products of products_list: every two of the names, in the order of the list
ProductPairs ==
    {pair \in ProductNames \X ProductNames :
        \E i, j \in DOMAIN ProductNameList :
            i < j /\ pair = <<ProductNameList[i], ProductNameList[j]>>}

\* the characters of the names that \w, \s and [-\s] match
WordChars == {"P", "l", "a", "n", "A", "B", "p", "b", "_"}
SpaceChars == {" "}
SeparatorChars == {"-"} \cup SpaceChars

RECURSIVE LStripChars(_)
LStripChars(s) == IF s # <<>> /\ Head(s) \in SpaceChars THEN LStripChars(Tail(s)) ELSE s

RECURSIVE RStripChars(_)
RStripChars(s) ==
    IF s # <<>> /\ s[Len(s)] \in SpaceChars
    THEN RStripChars(SubSeq(s, 1, Len(s) - 1))
    ELSE s

\* str.strip() on the characters of a name
StripChars(s) == RStripChars(LStripChars(s))

RECURSIVE CollapseSeparators(_)
\* re.sub(r'[-\s]+', '_', s)
CollapseSeparators(s) ==
    IF s = <<>> THEN <<>>
    ELSE IF Head(s) \in SeparatorChars
         THEN IF Tail(s) # <<>> /\ Head(Tail(s)) \in SeparatorChars
              THEN CollapseSeparators(Tail(s))
              ELSE <<"_">> \o CollapseSeparators(Tail(s))
         ELSE <<Head(s)>> \o CollapseSeparators(Tail(s))

\* clean_filename
clean_filename(filename) ==
    CollapseSeparators(StripChars(FilterSeq(filename, WordChars \cup SeparatorChars)))

\* str.lower() on the characters of the names
Lower(c) ==
    IF c = "P" THEN "p" ELSE IF c = "A" THEN "a" ELSE IF c = "B" THEN "b" ELSE c

\* product_name.replace(' ', '_').replace('/', '_').lower()
safe_product_filename(product_name) ==
    [i \in DOMAIN product_name |->
        IF product_name[i] \in {" ", "/"} THEN "_" ELSE Lower(product_name[i])]

\* get_extracted_data_path
get_extracted_data_path(product_name) ==
    [dir |-> "extracted_data", stem |-> clean_filename(product_name),
     suffix |-> "_extracted.json"]

\* the path of the corrections a review leaves for the apply step
temp_corrections_path(product_name) ==
    [dir |-> "extracted_data/temp_corrections",
     stem |-> safe_product_filename(product_name),
     suffix |-> "_corrections_temp.json"]

\* every path the handlers of these products can touch
AllPaths ==
    {get_extracted_data_path(n) : n \in ProductNames}
      \cup {temp_corrections_path(n) : n \in ProductNames}

\* what extract_answers_for_product can hand to the handler of a product
ExtractedData(product_name) ==
    {Failure}
      \cup {[product_name |-> product_name, answers |-> a] :
               a \in {l \in OriginalLists :
                          Len(l) < 2 /\ \A k \in DOMAIN l : l[k].category = CatNames[1]}}

\* what self_correct_answers can hand to the handler of a product
ReviewedCorrections ==
    {None} \cup {[corrections |-> l] :
                    l \in {c \in CorrectionLists :
                              /\ Len(c) < 2
                              /\ \A k \in DOMAIN c :
                                    c[k].d["suggested_correction"] = StrVal("Not covered")
                                    /\ c[k].d["question_id"]
                                          \in {StrVal(QuestionIds[1]), ListVal(<<>>)}}}

\* save_extracted_data: the files after the write
save_extracted_data(store, product_name, data) ==
    [store EXCEPT ![get_extracted_data_path(product_name)] =
        [product_name |-> data.product_name,
         product_name_original |-> product_name,
         answers |-> data.answers]]

\* load_extracted_data: None without the file, else its content with product_name
\* taken from product_name_original
load_extracted_data(store, product_name) ==
    LET data == store[get_extracted_data_path(product_name)]
    IN  IF data = NoFile THEN None
        ELSE [data EXCEPT !.product_name = data.product_name_original]

Other(p) == 3 - p

\* the step just taken for product p, and the stored result of the other product
\* before it
StepOf(p) ==
    [product |-> p,
     before |-> files[get_extracted_data_path(products[Other(p)].name)]]

productFrame ==
    <<config, product_markdown_full, extract_by_category, op, pc, catIdx, callVars,
      all_answers_for_product, result, saved, extraction_status, temp_corrections,
      llmCalls, outcomes, invoked, applyIn, display, reviewIn, applied,
      markdown_content, truncated, originalAfter, markdown_document_infos, size_check>>

\* no review has written a corrections file and no handler has applied one
NoSuggestions ==
    [writer |-> [path \in {temp_corrections_path(n) : n \in ProductNames} |-> None],
     applied |-> None]

InitProducts ==
    /\ categories = SubSeq(CatNames, 1, MaxCats)
    /\ questions = PipelineQuestions
    /\ IdleProduct
    /\ applyIn = None
    /\ applied = <<>>
    /\ NoTruncation
    /\ products \in {<<[name |-> pair[1], extraction_status |-> "Not Extracted"],
                        [name |-> pair[2], extraction_status |-> "Not Extracted"]>> :
                          pair \in ProductPairs}
    /\ files = [path \in AllPaths |-> NoFile]
    /\ lastStep = None
    /\ suggestedBy = NoSuggestions
    /\ batch = None
    /\ NoOtherCall

\* lines 45-49: the products the handler extracts, in the order of products_list
ProductsToExtract ==
    FilterSeq(<<1, 2>>, {p \in 1..2 :
                            products[p].extraction_status \notin {"Extracted", "Corrected"}})

\* handle_extract_all_answers_action up to its loop over the products
BatchStart ==
    /\ batch = None
    /\ questions # <<>>
    /\ ProductsToExtract # <<>>
    /\ batch' = [products_to_extract |-> ProductsToExtract,
                 i |-> 1,
                 product_map |-> [p \in 1..2 |-> products[p].extraction_status],
                 returned |-> <<>>]
    /\ UNCHANGED <<productFrame, products, files, lastStep, suggestedBy>>

\* saving whatever answer list came back
SavesResult_AnyList(extracted_data) == IsProductResult(extracted_data)

\* `if extracted_data and extracted_data.get("answers")`
SavesResult(extracted_data) ==
    IsProductResult(extracted_data) /\ extracted_data.answers # <<>>

\* one turn of the loop of handle_extract_all_answers_action, for product p
ExtractProduct(p) ==
    /\ batch # None
    /\ batch.i <= Len(batch.products_to_extract)
    /\ p = batch.products_to_extract[batch.i]
    /\ \E has_markdown \in BOOLEAN, extracted_data \in ExtractedData(products[p].name) :
          IF ~has_markdown
          THEN /\ batch' = [batch EXCEPT !.i = @ + 1,
                                         !.product_map[p] = "Markdown Missing",
                                         !.returned = Append(@, NotRead)]
               /\ UNCHANGED files
          ELSE IF SavesResult(extracted_data)
          THEN /\ files' = save_extracted_data(files, products[p].name, extracted_data)
               /\ batch' = [batch EXCEPT !.i = @ + 1,
                                         !.product_map[p] = "Extracted",
                                         !.returned = Append(@, extracted_data)]
          ELSE /\ batch' = [batch EXCEPT !.i = @ + 1,
                                         !.product_map[p] = "Extraction Failed",
                                         !.returned = Append(@, extracted_data)]
               /\ UNCHANGED files
    /\ lastStep' = StepOf(p)
    /\ suggestedBy' = [suggestedBy EXCEPT !.applied = None]
    /\ UNCHANGED <<productFrame, products>>

\* lines 83-88: the statuses go to the state once the loop is over
BatchEnd ==
    /\ batch # None
    /\ batch.i > Len(batch.products_to_extract)
    /\ products' = [p \in 1..2 |->
                       [products[p] EXCEPT !.extraction_status = batch.product_map[p]]]
    /\ batch' = None
    /\ UNCHANGED <<productFrame, files, lastStep, suggestedBy>>

\* handle_self_correction_action for product p
ReviewProduct(p) ==
    /\ \E corrections_list \in ReviewedCorrections :
          IF load_extracted_data(files, products[p].name) = None
             \/ corrections_list = None
          THEN UNCHANGED files /\ suggestedBy' = [suggestedBy EXCEPT !.applied = None]
          ELSE IF corrections_list.corrections = <<>>
          THEN UNCHANGED files /\ suggestedBy' = [suggestedBy EXCEPT !.applied = None]
          ELSE /\ files' = [files EXCEPT ![temp_corrections_path(products[p].name)] =
                                             corrections_list]
               /\ suggestedBy' =
                     [suggestedBy EXCEPT
                         !.writer[temp_corrections_path(products[p].name)] =
                             [name |-> products[p].name],
                         !.applied = None]
    /\ lastStep' = StepOf(p)
    /\ UNCHANGED <<productFrame, products, batch>>

\* handle_apply_corrections_action_button for product p
ApplyProduct(p) ==
    /\ LET product_name == products[p].name
           original_data_dict == load_extracted_data(files, product_name)
           corrections_list == files[temp_corrections_path(product_name)]
       IN  IF original_data_dict = None
           THEN UNCHANGED files /\ suggestedBy' = [suggestedBy EXCEPT !.applied = None]
           ELSE IF corrections_list = NoFile
           THEN UNCHANGED files /\ suggestedBy' = [suggestedBy EXCEPT !.applied = None]
           ELSE IF ApplyRaises(corrections_list.corrections)
           THEN UNCHANGED files /\ suggestedBy' = [suggestedBy EXCEPT !.applied = None]
           ELSE LET corrected_answers ==
                        ApplyCorrections(original_data_dict.answers,
                                         corrections_list.corrections)
                IN  /\ files' =
                          [save_extracted_data(
                               files, product_name,
                               [original_data_dict EXCEPT !.answers = corrected_answers])
                           EXCEPT ![temp_corrections_path(product_name)] = NoFile]
                    /\ suggestedBy' =
                          [writer |-> [suggestedBy.writer EXCEPT
                                          ![temp_corrections_path(product_name)] = None],
                           applied |-> IF corrected_answers = original_data_dict.answers
                                       THEN None
                                       ELSE suggestedBy.writer[
                                                temp_corrections_path(product_name)]]
    /\ lastStep' = StepOf(p)
    /\ UNCHANGED <<productFrame, products, batch>>

NextProducts ==
    \/ BatchStart
    \/ \E p \in 1..2 : ExtractProduct(p)
    \/ BatchEnd
    \/ \E p \in 1..2 : ReviewProduct(p)
    \/ \E p \in 1..2 : ApplyProduct(p)

SpecProducts == InitProducts /\ [][NextProducts]_vars

----------------------------------------------------------------------------
(* Properties *)

\* the loop over the categories is over and extract_answers_for_product returns
ExtractDone == op = "extract" /\ pc = "cat_loop" /\ catIdx > Len(categories)

\* the records of one category, in the order of the list
RecordsOfCategory(answers, category) ==
    SelectSeq(answers, LAMBDA rec : rec.category = category)

DistinctQuestionIds(answers) ==
    \A i, j \in DOMAIN answers :
        answers[i].question_id = answers[j].question_id => i = j

(* C1: after any sequence of extract and apply operations, the stored answers of *)
(* the product hold at most one record per question_id, also when a question     *)
(* applies to several categories.                                                *)
C1_OneRecordPerQuestionId ==
    /\ (saved # NoFile => DistinctQuestionIds(saved.answers))
    /\ (IsProductResult(result) => DistinctQuestionIds(result.answers))

(* C2: when the product's text is absent, extract and review return Failure,     *)
(* the gateway is not invoked and no record is produced or stored.               *)
C2_AbsentTextFails ==
    [][product_markdown_full' = None =>
          /\ op' = "none" /\ pc' = "idle"
          /\ result' = Failure
          /\ llmCalls' = 0 /\ lastOutcome' = NoOutcome /\ invoked' = {}
          /\ all_answers_for_product' = <<>>
          /\ saved' = saved /\ temp_corrections' = temp_corrections]_vars

\* a review of stored answers found no text and failed
C2_Witness ==
    /\ product_markdown_full = None /\ result = Failure
    /\ saved # NoFile /\ extraction_status = "Extracted"

\* a response that is a text whose trimmed form opens and closes with a matching
\* pair of brackets
BracketShaped(r) ==
    /\ IsText(r)
    /\ LET t == Strip(r.text)
       IN  t # <<>> /\ <<t[1], t[Len(t)]>> \in {<<LBrace, RBrace>>, <<LBracket, RBracket>>}

(* C9: the retrying caller invokes the gateway at most MAX_LLM_RETRIES times,    *)
(* returns the first non-empty bracket-shaped response at once, and returns      *)
(* Failure only after exactly MAX_LLM_RETRIES invocations that each gave an      *)
(* empty, missing or unshaped response.                                          *)
C9_RetryingCaller ==
    /\ callInvocations <= MAX_LLM_RETRIES
    /\ (pc \in {"llm", "backoff"} => callBad = callInvocations)
    /\ (lastOutcome # NoOutcome =>
          IF BracketShaped(lastOutcome)
          THEN pc = "llm_ret" /\ response_str = lastOutcome
          ELSE response_str = None)
    /\ (pc = "llm_ret" /\ response_str # None =>
          /\ BracketShaped(response_str)
          /\ lastOutcome = response_str
          /\ callInvocations = callBad + 1)
    /\ (pc = "llm_ret" /\ response_str = None =>
          /\ callInvocations = MAX_LLM_RETRIES
          /\ callBad = MAX_LLM_RETRIES
          /\ ~BracketShaped(lastOutcome))

\* the third invocation gave the response the call returns
C9_Witness ==
    /\ pc = "llm_ret" /\ response_str # None
    /\ callBad = MAX_LLM_RETRIES - 1 /\ waits = MAX_LLM_RETRIES - 1

\* the questions the category applies to, in configured order
MatchingQuestions(category) ==
    SelectSeq(questions, LAMBDA q : category \in q.applies_to_categories)

\* the records are one per matching question of the category, in question order,
\* all with this status
OnePerQuestion(recs, category, status) ==
    /\ Len(recs) = Len(MatchingQuestions(category))
    /\ \A k \in DOMAIN recs :
          /\ recs[k].question_id = MatchingQuestions(category)[k].id
          /\ recs[k].category = category
          /\ recs[k].status = status

\* the response, once its code fences are stripped, decodes to a JSON object
DecodesToObject(response) ==
    LET decoded == JsonLoads(CleanResponse(response.text))
    IN  decoded.ok /\ decoded.value.ty = "dict"

DecodedObject(response) == JsonLoads(CleanResponse(response.text)).value.d

RECURSIVE Replay(_)
\* the list extract_answers_for_product builds from these returns of the retrying call
Replay(outs) ==
    IF outs = <<>> THEN <<>>
    ELSE LET last == outs[Len(outs)]
         IN  AnswersAfterCategory(Replay(SubSeq(outs, 1, Len(outs) - 1)), last.category,
                                  QuestionsForCategory(last.category, questions),
                                  last.response)

\* a response that answers every question of the category
SuccessfulResponse(category) ==
    Text(FullObject([k \in DOMAIN MatchingQuestions(category) |->
                        MatchingQuestions(category)[k].id]))

(* C3: when every attempt for a category gave no usable response, each question  *)
(* of that category gets a record with status error_llm and the sentinel answer, *)
(* and the records of every other category of the run are the ones the run would *)
(* have given had that category succeeded.                                       *)
C3_LlmFailureIsLocal ==
    \A i \in DOMAIN outcomes :
        outcomes[i].response = None =>
            LET category == outcomes[i].category
                recs == RecordsOfCategory(all_answers_for_product, category)
                succeeded == Replay([outcomes EXCEPT
                                        ![i].response = SuccessfulResponse(category)])
            IN  /\ outcomes[i].bad = MAX_LLM_RETRIES
                /\ OnePerQuestion(recs, category, "error_llm")
                /\ \A k \in DOMAIN recs : recs[k].answer = "Error: LLM extraction failed"
                /\ \A c \in SeqToSet(categories) \ {category} :
                      RecordsOfCategory(all_answers_for_product, c)
                        = RecordsOfCategory(succeeded, c)

\* the first category failed at the gateway, the second one gave answers
C3_Witness ==
    /\ ExtractDone
    /\ Len(outcomes) = 2
    /\ outcomes[1].response = None
    /\ outcomes[2].response # None /\ DecodesToObject(outcomes[2].response)
    /\ Len(all_answers_for_product) >= 3

(* C4 as stated: when the response of a category decodes to a JSON object, each  *)
(* question of the category gets exactly one record with status raw whose answer *)
(* is the value mapped to its id, or the fallback literal when the id is no key. *)
C4_RawAnswerIsMappedValue ==
    \A i \in DOMAIN outcomes :
        outcomes[i].response # None /\ DecodesToObject(outcomes[i].response) =>
            LET category == outcomes[i].category
                recs == RecordsOfCategory(all_answers_for_product, category)
                obj == DecodedObject(outcomes[i].response)
            IN  /\ OnePerQuestion(recs, category, "raw")
                /\ \A k \in DOMAIN recs :
                      IF recs[k].question_id \in DOMAIN obj
                      THEN StrVal(recs[k].answer) = obj[recs[k].question_id]
                      ELSE recs[k].answer = "Answer not found by LLM."

(* C4 amended: when the response of a category decodes to a JSON object, each    *)
(* question of the category gets exactly one record with status raw whose answer *)
(* is the string form of the value mapped to its id (the value itself when it is *)
(* a string, the empty string included, and "None" when it is null), or the      *)
(* fallback literal when the id is no key.                                       *)
C4_RawAnswerIsStringForm ==
    \A i \in DOMAIN outcomes :
        outcomes[i].response # None /\ DecodesToObject(outcomes[i].response) =>
            LET category == outcomes[i].category
                recs == RecordsOfCategory(all_answers_for_product, category)
                obj == DecodedObject(outcomes[i].response)
            IN  /\ OnePerQuestion(recs, category, "raw")
                /\ \A k \in DOMAIN recs :
                      IF recs[k].question_id \in DOMAIN obj
                      THEN LET v == obj[recs[k].question_id]
                           IN  /\ v.ty = "str" => recs[k].answer = v.s
                               /\ v.ty = "null" => recs[k].answer = "None"
                      ELSE recs[k].answer = "Answer not found by LLM."

\* an object that maps one question of the category to the empty string and has
\* no key for another
C4_Witness ==
    \E i \in DOMAIN outcomes :
        /\ outcomes[i].response # None /\ DecodesToObject(outcomes[i].response)
        /\ LET recs == RecordsOfCategory(all_answers_for_product, outcomes[i].category)
           IN  /\ Len(recs) = 2
               /\ \E k \in DOMAIN recs : recs[k].answer = "" /\ recs[k].status = "raw"
               /\ \E k \in DOMAIN recs : recs[k].answer = "Answer not found by LLM."

\* the index of the category in the configured list
CategoryIndex(category) == CHOOSE k \in DOMAIN categories : categories[k] = category

(* C5: when the response of a category is bracket-shaped but, fences stripped,   *)
(* cannot be decoded as JSON or decodes to something that is not an object, each *)
(* question of the category gets a record with status error_parsing, the gateway *)
(* is not invoked again for that category, and the categories after it are still *)
(* processed.                                                                    *)
C5_ParsingFailure ==
    \A i \in DOMAIN outcomes :
        /\ outcomes[i].response # None
        /\ BracketShaped(outcomes[i].response)
        /\ ~DecodesToObject(outcomes[i].response)
        => LET category == outcomes[i].category
               recs == RecordsOfCategory(all_answers_for_product, category)
           IN  /\ OnePerQuestion(recs, category, "error_parsing")
               /\ \A k \in DOMAIN recs :
                     recs[k].answer = "Error: Parsing LLM response failed"
               \* the response was the one of the last invocation for the category
               /\ outcomes[i].invocations = outcomes[i].bad + 1
               /\ \A j \in DOMAIN outcomes : outcomes[j].category = category => j = i
               /\ pc \in {"llm", "backoff", "llm_ret"} => categories[catIdx] # category
               \* the categories after it are handled in their turn
               /\ catIdx > CategoryIndex(category)
               /\ \A k \in DOMAIN categories :
                     /\ k > CategoryIndex(category)
                     /\ k < catIdx
                     /\ MatchingQuestions(categories[k]) # <<>>
                     => \E j \in DOMAIN outcomes :
                           j > i /\ outcomes[j].category = categories[k]

\* the first category gave a JSON array, the second one was asked and answered
C5_Witness ==
    /\ ExtractDone
    /\ Len(outcomes) = 2
    /\ outcomes[1].response # None
    /\ JsonLoads(CleanResponse(outcomes[1].response.text)).ok
    /\ ~DecodesToObject(outcomes[1].response)
    /\ outcomes[2].response # None /\ DecodesToObject(outcomes[2].response)

\* the pairs (category, question_id) of the records, in order
PairsOf(answers) ==
    [k \in DOMAIN answers |-> <<answers[k].category, answers[k].question_id>>]

RECURSIVE ExpectedPairs(_)
\* category by category, the pairs of the category with each of its questions
ExpectedPairs(cats) ==
    IF cats = <<>> THEN <<>>
    ELSE [k \in DOMAIN MatchingQuestions(Head(cats)) |->
             <<Head(cats), MatchingQuestions(Head(cats))[k].id>>]
           \o ExpectedPairs(Tail(cats))

(* C6: when the text is available and extraction runs by category, the returned  *)
(* list has exactly one record for each pair of a configured category and a      *)
(* configured question applying to it, in category order and then question       *)
(* order, whatever the outcome of each category; a question that applies to no   *)
(* configured category has no record.                                            *)
C6_OneRecordPerCategoryAndQuestion ==
    /\ op = "extract" =>
          PairsOf(all_answers_for_product)
            = ExpectedPairs(Slice(categories, 1, catIdx - 1))
    /\ ( /\ pc = "idle" /\ product_markdown_full = Markdown /\ extract_by_category
         /\ categories # <<>> /\ questions # <<>> )
       => /\ IsProductResult(result)
          /\ PairsOf(result.answers) = ExpectedPairs(categories)

\* a returned list with a failed and an answered category and a question in both
C6_Witness ==
    /\ pc = "idle" /\ product_markdown_full = Markdown /\ extract_by_category
    /\ IsProductResult(result)
    /\ Len(result.answers) = 3
    /\ result.answers[1].status = "error_llm"
    /\ result.answers[3].status = "raw"
    /\ result.answers[1].question_id = result.answers[3].question_id

(* C7: while extraction runs over the categories, the gateway is never invoked   *)
(* for a category that no question applies to, and at the end the categories it  *)
(* was invoked for are as many as the configured categories with a question.     *)
C7_NoCallWithoutQuestions ==
    /\ \A c \in invoked : MatchingQuestions(c) # <<>>
    /\ pc \in {"llm", "backoff", "llm_ret"} /\ op = "extract" =>
          MatchingQuestions(categories[catIdx]) # <<>>
    /\ ExtractDone =>
          Cardinality(invoked)
            = Cardinality({k \in DOMAIN categories :
                              MatchingQuestions(categories[k]) # <<>>})

\* a run that skipped a category without questions and asked about the other
C7_Witness ==
    /\ ExtractDone
    /\ Len(categories) = 2
    /\ Cardinality(invoked) = 1
    /\ llmCalls >= 1

(* C8: when the text is available but no category or no question is configured, *)
(* extract returns a result with an empty answer list, which is not Failure, and *)
(* never invokes the gateway.                                                    *)
C8_EmptyConfiguration ==
    (categories = <<>> \/ questions = <<>>) =>
        /\ op = "none" /\ pc = "idle"
        /\ llmCalls = 0 /\ lastOutcome = NoOutcome /\ invoked = {}
        /\ product_markdown_full = Markdown =>
              /\ result = ProductResult(<<>>)
              /\ result # Failure
              /\ saved = NoFile

\* categories are configured but no question is, and extract returned
C8_Witness ==
    /\ categories # <<>> /\ questions = <<>>
    /\ product_markdown_full = Markdown
    /\ result = ProductResult(<<>>)

\* the corrections of the list whose question_id is this id, in order
TargetsOf(corrections_list, q_id) ==
    SelectSeq(corrections_list, LAMBDA c : c.d["question_id"] = StrVal(q_id))

(* C10: apply_corrections gives every record whose question_id a correction      *)
(* targets the status corrected and the answer (as a string) and reason of the   *)
(* last such correction, and every record that no correction targets keeps its   *)
(* answer, status and correction_reason.                                         *)
C10_ApplyCorrectsOrKeeps ==
    (applyIn # None /\ IsProductResult(result)) =>
        \A i \in DOMAIN applyIn.original_answers :
            LET rec == applyIn.original_answers[i]
                targets == TargetsOf(applyIn.corrections_list, rec.question_id)
                last == targets[Len(targets)]
                after == SelectSeq(result.answers,
                                   LAMBDA o : o.question_id = rec.question_id
                                              /\ o.category = rec.category)
            IN  /\ Len(after) = 1
                /\ IF targets # <<>>
                   THEN /\ after[1].status = "corrected"
                        /\ last.d["suggested_correction"].ty = "str" =>
                              after[1].answer = last.d["suggested_correction"].s
                        /\ last.d["suggested_correction"].ty = "null" =>
                              after[1].answer = "None"
                        /\ after[1].correction_reason = last.d["reason"]
                   ELSE after[1] = rec

\* how many times the record is in the list
Count(answers, rec) == Cardinality({i \in DOMAIN answers : answers[i] = rec})

\* the question_ids of the records
IdsOf(answers) == {answers[i].question_id : i \in DOMAIN answers}

\* per question_id, the answer, status and correction_reason of the records
PerQuestion(answers) ==
    { [question_id |-> answers[i].question_id,
       answer |-> answers[i].answer,
       status |-> answers[i].status,
       correction_reason |-> IF "correction_reason" \in DOMAIN answers[i]
                             THEN answers[i].correction_reason ELSE None] :
      i \in DOMAIN answers }

(* C11: apply_corrections with an empty corrections list returns the records of  *)
(* the original list with the same multiplicities, in some order.                *)
C11_EmptyCorrectionsKeepRecords ==
    (applied # <<>> /\ applyIn.corrections_list = <<>>) =>
        /\ IsProductResult(applied[1])
        /\ \A rec \in SeqToSet(applyIn.original_answers) \cup SeqToSet(applied[1].answers) :
              Count(applied[1].answers, rec) = Count(applyIn.original_answers, rec)

(* C12: for every original list and corrections list, applying the corrections  *)
(* to the result of applying them gives, per question_id, the same answer,       *)
(* status and correction_reason as applying them once.                           *)
C12_ReapplicationIdempotent ==
    applied # <<>> =>
        /\ IsProductResult(applied[1])
        /\ Len(applied) = 2 =>
              /\ IsProductResult(applied[2])
              /\ PerQuestion(applied[2].answers) = PerQuestion(applied[1].answers)

(* C13: for every corrections list, also one with a question_id that is not in  *)
(* the original list, the output of apply_corrections has the question_ids of    *)
(* the original list, and a record that no correction targets is a record of the *)
(* original list.                                                                *)
C13_ApplyCreatesNoRecord ==
    applied # <<>> =>
        /\ IsProductResult(applied[1])
        /\ IdsOf(applied[1].answers) = IdsOf(applyIn.original_answers)
        /\ \A k \in DOMAIN applied[1].answers :
              TargetsOf(applyIn.corrections_list, applied[1].answers[k].question_id) = <<>>
                => applied[1].answers[k] \in SeqToSet(applyIn.original_answers)

(* C14: apply_corrections returns an answer list, and raises nothing, for every  *)
(* original list and every corrections list that the review can return.          *)
C14_ApplyIsTotal ==
    applyIn # None => IsProductResult(result)

\* the response, fences stripped, decodes to an object with an array under corrections
HasCorrectionsArray(response) ==
    LET decoded == JsonLoads(CleanResponse(response.text))
    IN  /\ decoded.ok
        /\ decoded.value.ty = "dict"
        /\ "corrections" \in DOMAIN decoded.value.d
        /\ decoded.value.d["corrections"].ty = "list"

\* the items of that array
RawItems(response) ==
    JsonLoads(CleanResponse(response.text)).value.d["corrections"].items

\* an object with the four fields of a CorrectionSuggestion
HasFourFields(item) ==
    /\ item.ty = "dict"
    /\ \A f \in {"question_id", "original_answer", "suggested_correction", "reason"} :
          f \in DOMAIN item.d

\* an object with the four fields, each of them a string
WellTyped(item) ==
    HasFourFields(item) /\ \A f \in DOMAIN item.d : item.d[f].ty = "str"

C16_MalformedReviewFails ==
    (reviewIn # None /\ BracketShaped(reviewIn) /\ ~HasCorrectionsArray(reviewIn)) =>
        result = Failure

(* C17: _truncate_markdown returns the text unchanged when its length is at most *)
(* the limit of 280000 characters, the limit itself included; for a longer text  *)
(* it returns the first 280000 characters followed by the truncation marker, a   *)
(* text of length 280000 plus the length of the marker.                          *)
C17_TruncateAtLimit ==
    truncated # NotRead =>
        IF markdown_content.body <= 280000
        THEN truncated = markdown_content
        ELSE /\ truncated.body = 280000
             /\ truncated.tail = TruncationMarker
             /\ TextLen(truncated) = 280000 + Len(TruncationMarker)
             /\ TextLen(truncated) = 280024

\* a text of exactly the limit went through unchanged
C17_Witness ==
    /\ truncated # NotRead
    /\ markdown_content.body = 280000
    /\ truncated = markdown_content

\* one record per configured question, in order, all with status error_not_implemented
NotImplementedPerQuestion(answers) ==
    /\ Len(answers) = Len(questions)
    /\ \A k \in DOMAIN answers :
          /\ answers[k].question_id = questions[k].id
          /\ answers[k].status = "error_not_implemented"

\* the gateway was not invoked by a call in non-category mode
NoGatewayOutsideCategoryMode ==
    /\ op = "extract" => extract_by_category
    /\ ~extract_by_category =>
          pc = "idle" /\ llmCalls = 0 /\ lastOutcome = NoOutcome /\ invoked = {}

(* C18 as stated: whenever extract_answers_for_product is called in non-category *)
(* mode, the result holds one record with status error_not_implemented for every *)
(* configured question, and the gateway is never invoked.                        *)
C18_NonCategoryModeAlways ==
    /\ NoGatewayOutsideCategoryMode
    /\ ~extract_by_category =>
          IsProductResult(result) /\ NotImplementedPerQuestion(result.answers)

(* C18 amended: when extract_answers_for_product is called in non-category mode  *)
(* with the document text available and at least one category and one question  *)
(* configured, the result holds one record with status error_not_implemented for *)
(* every configured question; without the text it returns Failure and without a  *)
(* category or a question an empty list; in non-category mode the gateway is     *)
(* never invoked.                                                                *)
C18_NonCategoryModeConfigured ==
    /\ NoGatewayOutsideCategoryMode
    /\ ~extract_by_category =>
          IF product_markdown_full = None THEN result = Failure
          ELSE IF categories = <<>> \/ questions = <<>> THEN result = ProductResult(<<>>)
          ELSE IsProductResult(result) /\ NotImplementedPerQuestion(result.answers)

\* a call in non-category mode returned the records of two questions
C18_Witness ==
    /\ pc = "idle" /\ ~extract_by_category
    /\ product_markdown_full = Markdown
    /\ IsProductResult(result)
    /\ Len(result.answers) = 2
    /\ result.answers[2].status = "error_not_implemented"

\* the question ids the suggestions of the last review name
ReviewTargets ==
    IF "corrections" \in DOMAIN result
    THEN {result.corrections[i].d["question_id"] : i \in DOMAIN result.corrections}
    ELSE {}

\* the table shows the stored records, their answers as stored, and differs from
\* them only by the flag on targeted rows that are not corrected
DisplayIsAdvisory ==
    display # NoDisplay =>
        /\ Len(display) = Len(saved.answers)
        /\ \A k \in DOMAIN display :
              /\ display[k].question_id = saved.answers[k].question_id
              /\ display[k].answer = saved.answers[k].answer
              /\ display[k].status # saved.answers[k].status =>
                    /\ display[k].status = "review_suggested"
                    /\ StrVal(display[k].question_id) \in ReviewTargets
                    /\ saved.answers[k].status # "corrected"

(* C19: a self-correction review, whatever its outcome, leaves the product's     *)
(* stored answer list unchanged, every answer and every status; the table it     *)
(* returns shows the stored answers unaltered and the flag review_suggested only *)
(* on records whose question_id a suggestion names and whose status is not      *)
(* corrected.                                                                    *)
C19_ReviewIsAdvisory ==
    [][(ReviewStart \/ op = "review") =>
          /\ saved' = saved
          /\ pc' = "idle" => DisplayIsAdvisory']_vars

\* a review after an applied correction: a suggestion names a corrected record, which
\* the table shows as corrected
C19_Witness ==
    /\ pc = "idle" /\ reviewIn # None
    /\ display # NoDisplay
    /\ \E k \in DOMAIN display :
          /\ saved.answers[k].status = "corrected"
          /\ display[k].status = "corrected"
          /\ StrVal(display[k].question_id) \in ReviewTargets

(* C20: for two products with different names, every extract, review or apply    *)
(* step run for one of them leaves the stored extraction result of the other     *)
(* unchanged.                                                                    *)
C20_OtherProductUntouched ==
    lastStep # None =>
        files[get_extracted_data_path(products[Other(lastStep.product)].name)]
            = lastStep.before

\* the record names a configured question and a configured category that the
\* question lists in applies_to_categories
CategoryIsOfQuestion(rec) ==
    /\ \E k \in DOMAIN categories : categories[k] = rec.category
    /\ \E k \in DOMAIN questions :
          /\ questions[k].id = rec.question_id
          /\ questions[k].text = rec.question_text
          /\ rec.category \in questions[k].applies_to_categories

(* C21: apply_corrections leaves question_id, question_text and category of      *)
(* every record as they are (every record given to it is in its output with      *)
(* these three fields), so that after any sequence of extract and apply the      *)
(* category of every stored record is a configured category listed in the        *)
(* applies_to_categories of the record's question.                               *)
C21_ApplyKeepsIdentity ==
    /\ saved # NoFile => \A k \in DOMAIN saved.answers : CategoryIsOfQuestion(saved.answers[k])
    /\ (applyIn # None /\ IsProductResult(result)) =>
          \A i \in DOMAIN applyIn.original_answers :
              \E k \in DOMAIN result.answers :
                  /\ result.answers[k].question_id = applyIn.original_answers[i].question_id
                  /\ result.answers[k].question_text
                        = applyIn.original_answers[i].question_text
                  /\ result.answers[k].category = applyIn.original_answers[i].category

\* the list given to the latest apply_corrections call, as it was before the call
PassedAnswers ==
    IF Len(applied) = 1 THEN applyIn.original_answers ELSE applied[1].answers

(* C22: apply_corrections modifies neither the list given to it nor a record of  *)
(* it: after the call, also one that raised, the list holds the same records     *)
(* with the same answer, status and correction_reason (or none) as before.       *)
C22_ApplyLeavesOriginal ==
    applied # <<>> =>
        /\ originalAfter = PassedAnswers
        /\ \A i \in DOMAIN PassedAnswers :
              /\ originalAfter[i].answer = PassedAnswers[i].answer
              /\ originalAfter[i].status = PassedAnswers[i].status
              /\ DOMAIN originalAfter[i] = DOMAIN PassedAnswers[i]

\* a call that returned a corrected record for a record that is still raw in the
\* caller's list
C22_Witness ==
    /\ Len(applied) = 1
    /\ IsProductResult(applied[1])
    /\ \E i \in DOMAIN originalAfter, k \in DOMAIN applied[1].answers :
          /\ applied[1].answers[k].question_id = originalAfter[i].question_id
          /\ applied[1].answers[k].status = "corrected"
          /\ originalAfter[i].status = "raw"

\* how many configured categories have a question applying to them
AskedCategories ==
    Cardinality({k \in DOMAIN categories : MatchingQuestions(categories[k]) # <<>>})

(* C23: whatever the gateway does at each invocation (a text, an empty result,   *)
(* an exception), extract_answers_for_product terminates and returns, having     *)
(* invoked the gateway at most MAX_LLM_RETRIES times per configured category     *)
(* that has a matching question, and once per such category when every first     *)
(* response is bracket-shaped.                                                   *)
C23_ExtractTerminates ==
    /\ [](op = "extract" =>
            /\ llmCalls <= MAX_LLM_RETRIES * AskedCategories
            /\ llmCalls <= 3 * Len(categories)
            /\ (callInvocations = 1 /\ BracketShaped(lastOutcome)) => pc = "llm_ret"
            /\ ExtractDone =>
                  /\ Len(outcomes) = AskedCategories
                  /\ (\A k \in DOMAIN outcomes : outcomes[k].bad = 0) =>
                        llmCalls = AskedCategories)
    /\ (op = "extract" ~> (op = "none" /\ pc = "idle" /\ result # None))

\* a run over two categories that took every attempt of both calls
C23_Witness ==
    /\ ExtractDone
    /\ AskedCategories = 2
    /\ llmCalls = 2 * MAX_LLM_RETRIES

(* C24: the retrying caller waits after a failed attempt only when another       *)
(* attempt follows: a call that fails k times and then succeeds has waited k     *)
(* times, a call that fails MAX_LLM_RETRIES times has waited MAX_LLM_RETRIES - 1 *)
(* times, and no wait follows a success or the last attempt.                     *)
C24_BackoffBetweenAttempts ==
    /\ waits <= MAX_LLM_RETRIES - 1
    /\ pc = "llm" => waits = callInvocations /\ callBad = callInvocations
    /\ pc = "backoff" =>
          /\ ~BracketShaped(lastOutcome)
          /\ callInvocations < MAX_LLM_RETRIES
          /\ waits = callInvocations - 1
    /\ (pc = "llm_ret" /\ response_str # None) =>
          waits = callBad /\ waits = callInvocations - 1
    /\ (pc = "llm_ret" /\ response_str = None) =>
          waits = MAX_LLM_RETRIES - 1 /\ callBad = waits + 1

\* a call that failed at every attempt and returns without a last wait
C24_Witness ==
    /\ pc = "llm_ret" /\ response_str = None
    /\ callInvocations = MAX_LLM_RETRIES
    /\ waits = 2

\* the latest handler was a review that failed or returned no suggestion
LastReviewGaveNothing ==
    /\ pc = "idle"
    /\ display # NoDisplay
    /\ \/ result = Failure
       \/ "corrections" \in DOMAIN result /\ result.corrections = <<>>

(* C25: the apply handler applies only the suggestions of the latest review of   *)
(* the product: when that review failed or returned no suggestion, also after an *)
(* earlier review that returned some, applying leaves the stored answers         *)
(* unchanged.                                                                    *)
C25_ApplyUsesLatestReview ==
    [][(LastReviewGaveNothing /\ ApplyCorrectionsAction) => saved' = saved]_vars

(* C26: the suggestions a review of one product wrote are never applied to the   *)
(* stored answers of a product with another name: whenever the apply handler     *)
(* changed stored answers, the review that wrote the suggestions was run for the *)
(* product the handler was run for.                                              *)
C26_SuggestionsStayWithProduct ==
    suggestedBy.applied # None =>
        suggestedBy.applied = [name |-> products[lastStep.product].name]

\* extract_answers_for_product returned Failure or a result without answers
ReturnedNothing(extracted_data) ==
    \/ extracted_data = Failure
    \/ IsProductResult(extracted_data) /\ extracted_data.answers = <<>>

\* one turn of the batch: the product it was for and what extract returned
BatchTurn == batch # None /\ batch' # None /\ batch'.i = batch.i + 1

(* C29: in a batch extraction a product whose extract returned Failure or an     *)
(* empty answer list has nothing saved (every stored result stays as it was) and *)
(* gets the status "Extraction Failed", the batch goes on to the products that   *)
(* remain and ends only after the last of them, writing the statuses to the      *)
(* state; a result is saved and the product marked "Extracted" only when         *)
(* extract returned a non-empty answer list.                                     *)
C29_BatchFailureIsLocal ==
    /\ [][BatchTurn =>
            LET p == batch.products_to_extract[batch.i]
                extracted_data == batch'.returned[batch.i]
            IN  /\ ReturnedNothing(extracted_data) =>
                      /\ files' = files
                      /\ batch'.product_map[p] = "Extraction Failed"
                /\ (files' # files \/ batch'.product_map[p] = "Extracted") =>
                      /\ IsProductResult(extracted_data)
                      /\ extracted_data.answers # <<>>
                      /\ files' = save_extracted_data(files, products[p].name,
                                                      extracted_data)
                      /\ batch'.product_map[p] = "Extracted"
                /\ batch'.products_to_extract = batch.products_to_extract
                /\ products' = products]_vars
    /\ [][(batch # None /\ batch' = None) =>
            /\ Len(batch.returned) = Len(batch.products_to_extract)
            /\ \A p \in 1..2 :
                  products'[p].extraction_status = batch.product_map[p]]_vars
    /\ [](batch # None => Len(batch.returned) = batch.i - 1)

\* a batch is over in which the first product failed and the second one was saved
C29_Witness ==
    /\ batch = None
    /\ products[1].extraction_status = "Extraction Failed"
    /\ products[2].extraction_status = "Extracted"
    /\ files[get_extracted_data_path(products[1].name)] = NoFile
    /\ files[get_extracted_data_path(products[2].name)] # NoFile

\* the records of the running category when the object of FullObject is parsed
RawRecordsOfFullObject ==
    RawRecords(categories[catIdx], QuestionsForCategory(categories[catIdx], questions),
               JsonLoads(FullObject(AskedIds)).value.d)

(* C27: when the gateway's response for a category is a valid JSON object        *)
(* wrapped in a markdown code fence, the fence is stripped and the questions of  *)
(* the category get records of status raw that carry the answers of the object.  *)
C27_FencedResponseParsed ==
    [][(/\ op = "extract" /\ pc = "llm_ret" /\ pc' = "cat_loop"
        /\ lastOutcome =
              Text(<<Fence, JsonWord, Newline>> \o FullObject(AskedIds) \o <<Newline, Fence>>))
          => all_answers_for_product' = all_answers_for_product \o RawRecordsOfFullObject]_vars

\* the product has documents and none of their page paths gives a page
NoPageLoads ==
    /\ HasInfos(markdown_document_infos)
    /\ markdown_document_infos.infos # <<>>
    /\ \A k \in DOMAIN markdown_document_infos.infos :
          \A j \in DOMAIN PagePaths(markdown_document_infos.infos[k]) :
              LET page_path == PagePaths(markdown_document_infos.infos[k])[j]
              IN  page_path = EmptyPath \/ page_path.page_content = None

(* C28: when the product has documents and none of their pages can be loaded, or *)
(* they have no page paths, the aggregated text is absent: extract returns       *)
(* Failure without invoking the gateway, and check_document_size returns         *)
(* (False, 0).                                                                   *)
C28_NoPagesNoText ==
    NoPageLoads =>
        /\ size_check # NotRead => size_check = SizeCheck(FALSE, 0)
        /\ product_markdown_full # NotRead =>
              /\ product_markdown_full = None
              /\ op = "none" /\ pc = "idle"
              /\ result = Failure
              /\ llmCalls = 0 /\ invoked = {}

(* C30: when the records of the original list have pairwise distinct            *)
(* question_ids, apply_corrections returns, for every corrections list, a list   *)
(* with the records of the same question_ids in the same order.                  *)
C30_ApplyKeepsOrder ==
    (applied # <<>> /\ DistinctQuestionIds(applyIn.original_answers)) =>
        /\ IsProductResult(applied[1])
        /\ Len(applied[1].answers) = Len(applyIn.original_answers)
        /\ \A i \in DOMAIN applied[1].answers :
              applied[1].answers[i].question_id
                  = applyIn.original_answers[i].question_id

====
